---- MODULE Spec2Model ----
(***************************************************************************)
(* Webflow-Ultra: a recorder that captures DOM occurrences of a page into  *)
(* a line-delimited session file (src/main.py, src/recorder) and a         *)
(* runner that replays such a file against a live page                     *)
(* (src/replay/runner.py).                                                 *)
(*                                                                         *)
(* Conventions of the model                                                *)
(*   - a JS null / Python None is the string Null; no real attribute or    *)
(*     value equals it;                                                    *)
(*   - a JSON object is a function over its keys, so that "key present"    *)
(*     is k \in DOMAIN ev, as in the code's dict;                          *)
(*   - Spec is the capture pipeline, SpecReplay the replay scheduler.      *)
(*   - SpecFrames is the capture pipeline of a page with a frame,          *)
(*     SpecReplayFair the replay scheduler under weak fairness.            *)
(***************************************************************************)
EXTENDS Integers, Sequences, FiniteSets, TLC

VARIABLES
    \* ---- capture side (src/main.py, src/recorder) ----
    win,            \* per browsing context: its document's window.__webflowRecorder
    scripts,        \* how many copies of REC_STARTER are registered as init scripts
    stopSignal,     \* StopSignal._flag
    inflight,       \* calls of __recordEventBridge on their way to the binding
    accepted,       \* history: the calls the binding has run, in that order
    session,        \* the lines of the session file, in file order
    domLog,         \* history: per line, the DOM element and its real value
    \* ---- replay side (src/replay/runner.py) ----
    jsonl,          \* the lines of the session file replay is given
    events,         \* the parsed event log, in file order
    creds,          \* the configured USERNAME and PASSWORD
    env,            \* the page replay runs against: any page, or a dead one
    pc,             \* where replay() stands: start, pace, act, done, aborted
    idx,            \* 1-based index of the event the loop is at
    pageUrl,        \* page.url
    prevUrl,        \* prev_url
    clock,          \* ms elapsed since start_clock
    slept,          \* history: the pacing sleep taken before each event
    begun,          \* history: the events acted on, in the order acting began
    beganAt,        \* history: the clock when acting on each of them began
    snap,           \* history: what each candidate of the last resolution matched
    resolved,       \* history: the locator the last resolution returned
    acts,           \* history: the page operations done for the last event
    failed          \* history: per event acted on, whether an operation of it failed

captureVars == <<win, scripts, stopSignal, inflight, accepted, session, domLog>>

\* what the capture pipeline of one document leaves alone
bridgeVars == <<scripts, inflight, accepted>>

replayVars == <<jsonl, events, creds, env, pc, idx, pageUrl, prevUrl, clock, slept, begun,
                beganAt, snap, resolved, acts, failed>>

vars == <<captureVars, replayVars>>

----------------------------------------------------------------------------
(* Strings *)

Null == "<null>"

\* The redaction marker: six bullet characters in src/main.py:35,
\* src/replay/runner.py:33 and src/recorder/selectors.py:14,143,157; written
\* here with six ASCII characters, a string of the same length that no
\* enumerated field value equals unless a user types the marker itself.
REDACTED == "******"

\* Python truthiness of an optional string: not None and not empty.
Truthy(s) == s # Null /\ s # ""

\* JS `a || null` on a string attribute.
OrNull(s) == IF Truthy(s) THEN s ELSE Null

LowerChar(c) ==
    CASE c = "A" -> "a" [] c = "B" -> "b" [] c = "C" -> "c" [] c = "D" -> "d"
      [] c = "E" -> "e" [] c = "F" -> "f" [] c = "G" -> "g" [] c = "H" -> "h"
      [] c = "I" -> "i" [] c = "J" -> "j" [] c = "K" -> "k" [] c = "L" -> "l"
      [] c = "M" -> "m" [] c = "N" -> "n" [] c = "O" -> "o" [] c = "P" -> "p"
      [] c = "Q" -> "q" [] c = "R" -> "r" [] c = "S" -> "s" [] c = "T" -> "t"
      [] c = "U" -> "u" [] c = "V" -> "v" [] c = "W" -> "w" [] c = "X" -> "x"
      [] c = "Y" -> "y" [] c = "Z" -> "z"
      [] OTHER -> c

RECURSIVE Lower(_)
Lower(s) ==
    IF s = "" THEN "" ELSE LowerChar(SubSeq(s, 1, 1)) \o Lower(SubSeq(s, 2, Len(s)))

\* needle occurs in hay (re.search of a literal)
Contains(hay, needle) ==
    \E i \in 1..(Len(hay) - Len(needle) + 1) :
        SubSeq(hay, i, i + Len(needle) - 1) = needle

\* JS: v.length > max ? v.slice(0, max - 3) + "..." : v
Truncate(v, max) ==
    IF Len(v) > max THEN SubSeq(v, 1, max - 3) \o "..." ELSE v

----------------------------------------------------------------------------
(* The recorded document: its elements and the values a field can hold *)

PreviewMax == 40
TextMax == 60

\* How many lines the session file may get in a run of the model.
MaxSession == 4

PageUrl == "https://example.test/login"

\* chain: the tag names from the element up to, not including, <html>
Element(tag, type, id, name, text, chain) ==
    [tagName |-> tag, typeAttr |-> type, id |-> id, className |-> "", name |-> name,
     role |-> Null, ariaLabel |-> Null, title |-> Null, innerText |-> text,
     chain |-> chain]

ElPwd      == Element("INPUT", "password", "", "pwd", "", <<"input", "form", "body">>)
ElPwdCaps  == Element("INPUT", "PASSWORD", "PassWord", "PASSWORD", "", <<"input", "form", "body">>)
ElPassText == Element("INPUT", "text", "", "passphrase", "", <<"input", "form", "body">>)
ElEmail    == Element("INPUT", "email", "email", "login", "", <<"input", "form", "body">>)
ElEmailPass == Element("INPUT", "email", "", "passport_email", "", <<"input", "form", "body">>)
ElUser     == Element("INPUT", "text", "", "username", "", <<"input", "form", "body">>)
ElAccount  == Element("INPUT", "text", "", "account", "", <<"input", "form", "body">>)
ElSearch   == Element("INPUT", Null, "", "q", "", <<"input", "div", "body">>)
ElNote     == Element("TEXTAREA", Null, "", "note", "", <<"textarea", "div", "body">>)
ElButton   == Element("BUTTON", "submit", "", Null, "Sign In", <<"button", "form", "body">>)
ElForm     == Element("FORM", Null, "", Null, "Sign In", <<"form", "body">>)

\* The deepest nesting of the recorded document.
MaxDepth == 10

\* a <div> under d - 1 more <div>s, under <body>
Nested(d) == Element("DIV", Null, "", Null, "", [i \in 1..d |-> "div"] \o <<"body">>)

Fields == {ElPwd, ElPwdCaps, ElPassText, ElSearch, ElNote}
Elements == Fields \cup {ElButton, ElForm} \cup {Nested(d) : d \in 1..MaxDepth}

\* a value longer than PreviewMax
LongValue == "0123456789012345678901234567890123456789x"

\* what a field may hold when an event is captured: nothing, a real value, a
\* long real value, or the marker itself typed by the user
Values == {"", "s3cr3t", LongValue, REDACTED}

\* The IDL attribute el.type of an <input>: the type content attribute in
\* lower case when it names a known state, else "text".
DomType(el) ==
    IF el.tagName # "INPUT" THEN Null
    ELSE IF el.typeAttr # Null
            /\ Lower(el.typeAttr) \in {"password", "email", "submit", "text"}
         THEN Lower(el.typeAttr)
         ELSE "text"

\* el.value: form fields have one, other elements have none (undefined)
DomValue(el, v) ==
    IF el.tagName \in {"INPUT", "TEXTAREA", "SELECT", "BUTTON"} THEN v ELSE Null

----------------------------------------------------------------------------
(* RECORDER_JS, src/recorder/selectors.py *)

textPreview(el) == Truncate(el.innerText, TextMax)

valuePreview(el, v) ==
    IF el.tagName = "INPUT" /\ DomType(el) = "password" THEN REDACTED
    ELSE IF el.tagName \in {"INPUT", "TEXTAREA"} THEN Truncate(v, PreviewMax)
    ELSE Null

RECURSIVE JoinWith(_, _)
JoinWith(parts, sep) ==
    IF Len(parts) = 0 THEN ""
    ELSE IF Len(parts) = 1 THEN parts[1]
    ELSE parts[1] \o sep \o JoinWith(Tail(parts), sep)

Reverse(q) == [i \in 1..Len(q) |-> q[Len(q) + 1 - i]]

CssDepth == 6
XPathDepth == 8

\* a walk up to <body> without the limit
cssPathUnbounded(el) ==
    IF Truthy(el.id) THEN "#" \o el.id
    ELSE IF Len(el.chain) = 0 THEN Null
    ELSE JoinWith(Reverse(el.chain), " > ")

\* the walk adds a part, then stops once parts.length > 6; the elements of
\* the model carry no class and have no sibling of their tag
cssPath(el) ==
    IF Truthy(el.id) THEN "#" \o el.id
    ELSE LET n == IF Len(el.chain) > CssDepth THEN CssDepth + 1 ELSE Len(el.chain)
         IN  IF n = 0 THEN Null
             ELSE JoinWith(Reverse(SubSeq(el.chain, 1, n)), " > ")

\* the walk goes on through <html> and stops once segs.length > 8
xPath(el) ==
    LET full == el.chain \o <<"html">>
        n == IF Len(full) > XPathDepth THEN XPathDepth + 1 ELSE Len(full)
    IN  "//" \o JoinWith([i \in 1..n |-> Reverse(SubSeq(full, 1, n))[i] \o "[1]"], "/")

elInfo(el, v) ==
    [tag |-> Lower(el.tagName), id |-> OrNull(el.id), classes |-> OrNull(el.className),
     name |-> el.name,
     type |-> el.typeAttr, role |-> OrNull(el.role),
     ariaLabel |-> OrNull(el.ariaLabel), title |-> el.title,
     text |-> textPreview(el), value_preview |-> valuePreview(el, v),
     selectors |-> [css |-> cssPath(el), xpath |-> xPath(el)]]

NoMeta == <<>>

\* `val` of _input and _change
fieldVal(el, v) ==
    IF el.tagName = "INPUT" /\ DomType(el) = "password" THEN REDACTED
    ELSE DomValue(el, v)

sentVal(val) == IF Truthy(val) /\ Len(val) > PreviewMax THEN Truncate(val, PreviewMax) ELSE val

clickPayload(el, v) ==
    [etype |-> "click", url |-> PageUrl, x |-> 0, y |-> 0, button |-> "left",
     el |-> elInfo(el, v), meta |-> NoMeta]

keydownPayload(k) ==
    [etype |-> "keydown", url |-> PageUrl, key |-> k, code |-> k, ctrl |-> FALSE,
     alt |-> FALSE, shift |-> FALSE, meta_key |-> FALSE, meta |-> NoMeta]

inputPayload(el, v) ==
    [etype |-> "input", url |-> PageUrl, el |-> elInfo(el, v),
     input_value |-> sentVal(fieldVal(el, v)), meta |-> NoMeta]

changePayload(el, v) ==
    [etype |-> "change", url |-> PageUrl, el |-> elInfo(el, v),
     value |-> sentVal(fieldVal(el, v)), meta |-> NoMeta]

submitPayload(el) ==
    [etype |-> "submit", url |-> PageUrl, el |-> elInfo(el, ""), meta |-> NoMeta]

visPayload(state) ==
    [etype |-> "visibility", url |-> PageUrl, state |-> state, meta |-> NoMeta]

navPayload(reason) ==
    [etype |-> "nav", from_url |-> Null, to_url |-> PageUrl,
     meta |-> [reason |-> reason]]

----------------------------------------------------------------------------
(* record_event_binding and JsonlWriter, src/main.py and src/recorder/writer.py *)

Get(d, k) == IF k \in DOMAIN d THEN d[k] ELSE Null

\* a null element descriptor (el: null), and Python's `data.get("el") or {}`
NullEl == [null |-> TRUE]

GetEl(data) == IF "el" \in DOMAIN data THEN data["el"] ELSE NullEl

SetKey(d, k, v) == [x \in DOMAIN d \cup {k} |-> IF x = k THEN v ELSE d[x]]

\* a redaction that masks again what is already masked
RedactTwice(data) ==
    IF Get(data, "etype") \in {"input", "change"}
       /\ (LET el == GetEl(data)
           IN  Get(el, "type") = "password"
               \/ Truthy(Get(data, "input_value")))
    THEN LET old == Get(data, "input_value")
             m == IF old = REDACTED THEN REDACTED \o REDACTED ELSE REDACTED
             d1 == SetKey(SetKey(data, "input_value", m), "value", m)
         IN  IF "el" \in DOMAIN data /\ data["el"] # NullEl
             THEN SetKey(d1, "el", SetKey(data["el"], "value_preview", m))
             ELSE d1
    ELSE data

\* a redaction that forgets the nested copy
RedactTopLevelOnly(data) ==
    IF Get(data, "etype") \in {"input", "change"}
       /\ (LET el == GetEl(data)
           IN  Get(el, "type") = "password"
               \/ (Truthy(Get(data, "input_value"))
                   /\ Get(data, "input_value") # REDACTED))
    THEN SetKey(SetKey(data, "input_value", REDACTED), "value", REDACTED)
    ELSE data

\* the try block of record_event_binding: data as it is handed to the writer
Redact(data) ==
    IF Get(data, "etype") \in {"input", "change"}
       /\ (LET el == GetEl(data)
           IN  Get(el, "type") = "password"
               \/ (Truthy(Get(data, "input_value"))
                   /\ Get(data, "input_value") # REDACTED))
    THEN LET d1 == SetKey(SetKey(data, "input_value", REDACTED), "value", REDACTED)
         IN  IF "el" \in DOMAIN data /\ data["el"] # NullEl
             THEN SetKey(d1, "el", SetKey(data["el"], "value_preview", REDACTED))
             ELSE d1   \* data["el"] is None: the TypeError is swallowed
    ELSE data

\* JsonlWriter.write: one more line at the end of the file
\* a writer that opens the file anew for each record
WriterWriteTruncating(file, data) == <<data>>

WriterWrite(file, data) == Append(file, data)

\* one call of the binding __recordEventBridge
Bridge(payload, el, v) ==
    /\ Len(session) < MaxSession
    /\ session' = WriterWrite(session, Redact(payload))
    /\ domLog' = Append(domLog, [el |-> el, value |-> v])

----------------------------------------------------------------------------
(* The recorder of a document: RECORDER_JS and REC_STARTER *)

\* the main document and an embedded frame
Contexts == {"main", "frame"}

\* a context without a document of its own yet (about:blank)
NoWindow == [loaded |-> FALSE, doc |-> 0, installed |-> FALSE, active |-> FALSE,
             listeners |-> 0, initials |-> 0, occurrences |-> 0]

\* the window of the document that replaces the one of w
FreshWindow(w) == [NoWindow EXCEPT !.loaded = TRUE, !.doc = w.doc + 1]

\* RECORDER_JS: keep a single recorder instance
RecorderJs(w) == IF w.installed THEN w ELSE [w EXCEPT !.installed = TRUE]

\* a start() that registers its listeners whether or not it is active
RecorderStartUnguarded(w) ==
    [w EXCEPT !.active = TRUE, !.listeners = @ + 1, !.initials = @ + 1]

\* __webflowRecorder.start(): one more set of listeners and the initial
\* visibility and nav(load), unless the recorder is active
RecorderStart(w) ==
    IF w.active THEN w
    ELSE [w EXCEPT !.active = TRUE, !.listeners = @ + 1, !.initials = @ + 1]

\* __webflowRecorder.stop()
RecorderStop(w) ==
    IF ~w.active THEN w
    ELSE [w EXCEPT !.active = FALSE, !.listeners = @ - 1]

\* startIfReady, and the expression _start_in_frame evaluates
StartIfReady(w) == IF w.installed THEN RecorderStart(w) ELSE w

\* one run of REC_STARTER in a document
RecStarter(w) == StartIfReady(RecorderJs(w))

\* a new document: each registered init script runs in it
RECURSIVE RunStarters(_, _)
RunStarters(w, n) == IF n = 0 THEN w ELSE RunStarters(RecStarter(w), n - 1)

LoadDocument(w, n) == RunStarters(FreshWindow(w), n)

----------------------------------------------------------------------------
(* The capture pipeline *)

ReplayIdle ==
    /\ jsonl = <<>>
    /\ events = <<>>
    /\ creds = [user |-> "", pass |-> ""]
    /\ env = "any"
    /\ pc = "idle"
    /\ idx = 0
    /\ pageUrl = "about:blank"
    /\ prevUrl = "about:blank"
    /\ clock = 0
    /\ slept = <<>>
    /\ begun = <<>>
    /\ beganAt = <<>>
    /\ snap = <<>>
    /\ resolved = [kind |-> "none", sel |-> "", elem |-> "none"]
    /\ acts = <<>>
    /\ failed = <<>>

CaptureIdle ==
    /\ win = [c \in Contexts |-> NoWindow]
    /\ scripts = 1
    /\ inflight = [c \in Contexts |-> <<>>]
    /\ accepted = <<>>
    /\ stopSignal = FALSE
    /\ session = <<>>
    /\ domLog = <<>>

Init ==
    /\ CaptureIdle
    /\ ReplayIdle

\* a document loads: the init script installs the recorder and start() sends
\* the initial visibility and nav(load)
DocumentLoad ==
    /\ ~stopSignal
    /\ Len(session) + 2 <= MaxSession
    /\ win' = [win EXCEPT !["main"] = LoadDocument(@, scripts)]
    /\ session' = WriterWrite(WriterWrite(session, Redact(visPayload("visible"))),
                              Redact(navPayload("load")))
    /\ domLog' = domLog \o <<[el |-> NullEl, value |-> Null], [el |-> NullEl, value |-> Null]>>
    /\ UNCHANGED <<stopSignal, bridgeVars, replayVars>>

OnClick ==
    /\ win["main"].active
    /\ \E el \in Elements, v \in {"", "s3cr3t"} :
          Bridge(clickPayload(el, DomValue(el, v)), el, DomValue(el, v))
    /\ UNCHANGED <<win, stopSignal, bridgeVars, replayVars>>

OnKeydown ==
    /\ win["main"].active
    /\ \E k \in {"a", "Enter"} : Bridge(keydownPayload(k), NullEl, Null)
    /\ UNCHANGED <<win, stopSignal, bridgeVars, replayVars>>

\* the debounced callback of _input runs for a field holding v
OnInput ==
    /\ win["main"].active
    /\ \E el \in Fields, v \in Values : Bridge(inputPayload(el, v), el, v)
    /\ UNCHANGED <<win, stopSignal, bridgeVars, replayVars>>

OnChange ==
    /\ win["main"].active
    /\ \E el \in Fields, v \in Values : Bridge(changePayload(el, v), el, v)
    /\ UNCHANGED <<win, stopSignal, bridgeVars, replayVars>>

OnSubmit ==
    /\ win["main"].active
    /\ Bridge(submitPayload(ElForm), ElForm, Null)
    /\ UNCHANGED <<win, stopSignal, bridgeVars, replayVars>>

OnVisibilityChange ==
    /\ win["main"].active
    /\ \E st \in {"hidden"} : Bridge(visPayload(st), NullEl, Null)
    /\ UNCHANGED <<win, stopSignal, bridgeVars, replayVars>>

OnPopstate ==
    /\ win["main"].active
    /\ Bridge(navPayload("popstate"), NullEl, Null)
    /\ UNCHANGED <<win, stopSignal, bridgeVars, replayVars>>

\* the stop hotkey: main leaves its loop and calls __webflowRecorder.stop()
StopRecording ==
    /\ ~stopSignal
    /\ stopSignal' = TRUE
    /\ win' = [win EXCEPT !["main"] = RecorderStop(@)]
    /\ UNCHANGED <<session, domLog, bridgeVars, replayVars>>

Next ==
    \/ DocumentLoad
    \/ OnClick
    \/ OnKeydown
    \/ OnInput
    \/ OnChange
    \/ OnSubmit
    \/ OnVisibilityChange
    \/ OnPopstate
    \/ StopRecording

Spec == Init /\ [][Next]_vars

----------------------------------------------------------------------------
(* The capture pipeline of a page with an embedded frame: the calls of     *)
(* __recordEventBridge of both documents on their way to the one binding   *)

MaxDocs == 2
MaxScripts == 2
MaxCalls == 4

\* one call of window.__recordEventBridge: the document it comes from, the DOM
\* occurrence that caused it (0: the start of the recorder), its argument, and
\* whether the stop signal was already raised when it was made
Call(c, w, occ, payload, el, v) ==
    [ctx |-> c, doc |-> w.doc, occ |-> occ, payload |-> payload, el |-> el, value |-> v,
     late |-> stopSignal]

Pending == Len(accepted) + Len(inflight["main"]) + Len(inflight["frame"])

\* the calls start() makes once its listeners are registered: this._vis(),
\* then send("nav", load); one pair per start that went through
RECURSIVE StartCalls(_, _, _)
StartCalls(c, w, n) ==
    IF n = 0 THEN <<>>
    ELSE <<Call(c, w, 0, visPayload("visible"), NullEl, Null),
           Call(c, w, 0, navPayload("load"), NullEl, Null)>> \o StartCalls(c, w, n - 1)

InitialCalls(c, before, after) == StartCalls(c, after, after.initials - before.initials)

\* the occurrences of a document the frames model draws from
Occurrences ==
    {[payload |-> keydownPayload("Enter"), el |-> NullEl, value |-> Null],
     [payload |-> inputPayload(ElPwd, "s3cr3t"), el |-> ElPwd, value |-> "s3cr3t"],
     [payload |-> navPayload("popstate"), el |-> NullEl, value |-> Null]}

\* every registered listener of the occurrence's type sends one call
ListenerCalls(c, w, o) ==
    [i \in 1..w.listeners |-> Call(c, w, w.occurrences + 1, o.payload, o.el, o.value)]

InitFrames ==
    /\ CaptureIdle
    /\ ReplayIdle

\* context c gets a new document (page.goto, a frame attached or navigated):
\* the registered init scripts run in it
FrameLoad(c) ==
    /\ ~stopSignal
    /\ win[c].doc < MaxDocs
    /\ Pending + 2 <= MaxCalls
    /\ LET w == LoadDocument(win[c], scripts)
       IN  /\ win' = [win EXCEPT ![c] = w]
           /\ inflight' = [inflight EXCEPT ![c] = @ \o InitialCalls(c, FreshWindow(win[c]), w)]
    /\ UNCHANGED <<scripts, stopSignal, accepted, session, domLog, replayVars>>

\* _start_in_frame(fr), run for the page and on frameattached/framenavigated:
\* fr.add_init_script raises or registers one more copy of REC_STARTER; in
\* the second case the explicit start() is evaluated in the current document
StartInFrame(c) ==
    /\ ~stopSignal
    /\ \E ok \in BOOLEAN :
          IF ok
          THEN /\ scripts < MaxScripts
               /\ Pending + 2 <= MaxCalls
               /\ scripts' = scripts + 1
               /\ LET w == StartIfReady(win[c])
                  IN  /\ win' = [win EXCEPT ![c] = w]
                      /\ inflight' = [inflight EXCEPT ![c] = @ \o InitialCalls(c, win[c], w)]
          ELSE UNCHANGED <<win, scripts, inflight>>
    /\ UNCHANGED <<stopSignal, accepted, session, domLog, replayVars>>

\* something happens in the document of context c
Occur(c) ==
    /\ win[c].loaded
    /\ \E o \in Occurrences :
          LET calls == IF win[c].active THEN ListenerCalls(c, win[c], o) ELSE <<>>
          IN  /\ Pending + Len(calls) <= MaxCalls
              /\ Len(calls) > 0
              /\ inflight' = [inflight EXCEPT ![c] = @ \o calls]
    /\ win' = [win EXCEPT ![c].occurrences = @ + 1]
    /\ UNCHANGED <<scripts, stopSignal, accepted, session, domLog, replayVars>>

\* the event loop runs record_event_binding for the next call of context c:
\* the binding has no await, so it runs to its end, writer.write included
BindingRuns(c) ==
    /\ inflight[c] # <<>>
    /\ LET call == Head(inflight[c])
       IN  /\ session' = WriterWrite(session, Redact(call.payload))
           /\ domLog' = Append(domLog, [el |-> call.el, value |-> call.value])
           /\ accepted' = Append(accepted, call)
    /\ inflight' = [inflight EXCEPT ![c] = Tail(@)]
    /\ UNCHANGED <<win, scripts, stopSignal, replayVars>>

NextFrames ==
    \/ FrameLoad("main")
    \/ FrameLoad("frame")
    \/ StartInFrame("main")
    \/ StartInFrame("frame")
    \/ Occur("main")
    \/ Occur("frame")
    \/ BindingRuns("main")
    \/ BindingRuns("frame")
    \/ StopRecording

SpecFrames == InitFrames /\ [][NextFrames]_vars

----------------------------------------------------------------------------
(* Claims about the capture pipeline of a page with a frame *)

\* the file holds one complete line per call the binding ran, in that order
OneLinePerCall ==
    /\ Len(session) = Len(accepted)
    /\ \A i \in DOMAIN session :
          /\ session[i] = Redact(accepted[i].payload)
          /\ Get(session[i], "etype") = Get(accepted[i].payload, "etype")

\* a step leaves the lines of the file as they are and adds a line exactly
\* when the binding runs a call
AppendOnly ==
    /\ Len(session') = Len(session) + (Len(accepted') - Len(accepted))
    /\ Len(accepted') - Len(accepted) \in {0, 1}
    /\ SubSeq(session', 1, Len(session)) = session

\* C16: under every interleaving of the calls of the main document and of the
\* frame, each call the binding runs appends exactly one complete line, the
\* lines are in the order the calls were run, and no line changes afterwards
C16_SingleWriter == [](OneLinePerCall) /\ [][AppendOnly]_vars

\* calls of the main document and of the frame were run alternately
C16_Witness ==
    /\ Len(session) >= 3
    /\ \E i \in DOMAIN accepted :
          /\ i + 2 \in DOMAIN accepted
          /\ accepted[i].ctx = "main"
          /\ accepted[i + 1].ctx = "frame"
          /\ accepted[i + 2].ctx = "main"
          /\ session[i + 2] = Redact(accepted[i + 2].payload)

\* C28: once the user has signalled stop no further event is appended to the
\* session file: an event emitted after the signal, by the main document or
\* by a frame, is never written. (Read in the claim's favour: a call made
\* before the signal and run after it is not counted.)
C28_NoWriteAfterStop ==
    \A i \in DOMAIN accepted : accepted[i].late => session[i] # Redact(accepted[i].payload)

\* the calls context c has made so far, run or not
CallsOf(c) == SelectSeq(accepted, LAMBDA q : q.ctx = c) \o inflight[c]

\* C17: however often the recorder is installed and started in a context, its
\* document has one set of listeners while active, so a DOM occurrence makes
\* at most one call and the initial visibility and nav(load) are sent once
\* per document
C17_IdempotentInstall ==
    \A c \in Contexts :
        /\ win[c].listeners = (IF win[c].active THEN 1 ELSE 0)
        /\ win[c].initials <= 1
        /\ \A i, j \in DOMAIN CallsOf(c) :
              (/\ CallsOf(c)[i].doc = CallsOf(c)[j].doc
               /\ CallsOf(c)[i].occ = CallsOf(c)[j].occ
               /\ Get(CallsOf(c)[i].payload, "etype") = Get(CallsOf(c)[j].payload, "etype"))
              => i = j

\* the recorder was installed or started again in a context whose document
\* then sent the initial events and the call of an occurrence
C17_Witness ==
    \E c \in Contexts :
        /\ scripts >= 2
        /\ win[c].active
        /\ \E i, j \in DOMAIN accepted :
              /\ accepted[i].ctx = c /\ accepted[i].doc = win[c].doc
              /\ accepted[i].payload = navPayload("load")
              /\ accepted[j].ctx = c /\ accepted[j].doc = win[c].doc
              /\ accepted[j].occ >= 1

----------------------------------------------------------------------------
(* The credential field classifier of the runner, src/replay/runner.py *)

\* _el_from_event
ElFromEvent(ev) ==
    LET el == GetEl(ev)
        sel == IF "selectors" \in DOMAIN el THEN el["selectors"] ELSE NullEl
    IN  [tag |-> Get(el, "tag"), id |-> Get(el, "id"), name |-> Get(el, "name"),
         type |-> Get(el, "type"), role |-> Get(el, "role"),
         aria_label |-> IF Truthy(Get(el, "ariaLabel")) THEN Get(el, "ariaLabel")
                        ELSE Get(el, "aria_label"),
         title |-> Get(el, "title"), text |-> Get(el, "text"),
         value_preview |-> Get(el, "value_preview"),
         selectors_css |-> Get(sel, "css"), selectors_xpath |-> Get(sel, "xpath")]

\* " ".join(filter(None, parts))
JoinTruthy(parts) == JoinWith(SelectSeq(parts, Truthy), " ")

\* PASS_PAT = pass(word)?, re.I
PassPat(hay) == Contains(Lower(hay), "pass")

\* EMAIL_PAT = (e[-\s]*mail|user(name)?|login|account), re.I
EmailPat(hay) ==
    LET h == Lower(hay)
    IN  \/ Contains(h, "user")
        \/ Contains(h, "login")
        \/ Contains(h, "account")
        \/ \E i \in 1..Len(h), j \in 1..Len(h) :
              /\ i < j
              /\ SubSeq(h, i, i) = "e"
              /\ \A k \in (i + 1)..(j - 1) : SubSeq(h, k, k) \in {"-", " "}
              /\ j + 3 <= Len(h)
              /\ SubSeq(h, j, j + 3) = "mail"

looksLikeEmailField(info) ==
    \/ Truthy(info.type) /\ Lower(info.type) = "email"
    \/ EmailPat(JoinTruthy(<<info.id, info.name, info.aria_label, info.title,
                             info.text, info.type>>))

looksLikePasswordField(info) ==
    \/ Truthy(info.type) /\ Lower(info.type) = "password"
    \/ PassPat(JoinTruthy(<<info.id, info.name, info.aria_label, info.title,
                            info.text>>))

----------------------------------------------------------------------------
(* The credential field rules of the recorder's autofill, src/main.py *)

\* EMAIL_PAT of main.py = e[-\s]*mail|user(name)?|login, re.I
CaptureEmailPat(hay) ==
    LET h == Lower(hay)
    IN  \/ Contains(h, "user")
        \/ Contains(h, "login")
        \/ \E i \in 1..Len(h), j \in 1..Len(h) :
              /\ i < j
              /\ SubSeq(h, i, i) = "e"
              /\ \A k \in (i + 1)..(j - 1) : SubSeq(h, k, k) \in {"-", " "}
              /\ j + 3 <= Len(h)
              /\ SubSeq(h, j, j + 3) = "mail"

\* email|user(name)?|login, re.I: the pattern of the label look-ups
CaptureLabelPat(label) ==
    LET h == Lower(label)
    IN  Contains(h, "email") \/ Contains(h, "user") \/ Contains(h, "login")

\* `attr || ''` of the scan
OrEmpty(s) == IF Truthy(s) THEN s ELSE ""

\* attr_sel of _find_email_candidates, for a field known by its tag, id, name,
\* role and declared type
EmailAttrSel(info) ==
    \/ /\ info.tag = "input"
       /\ \/ Lower(OrEmpty(info.type)) \in {"email", "text"}
          \/ \E a \in {OrEmpty(info.name), OrEmpty(info.id)}, w \in {"email", "user", "login"} :
                Contains(Lower(a), w)
    \/ info.role = "textbox"

\* _find_email_candidates: found by its label, or scanned and matching
\* EMAIL_PAT on id, name, placeholder, aria-label and type, or of type email
captureLooksLikeEmailField(info) ==
    \/ CaptureLabelPat(OrEmpty(info.aria_label))
    \/ /\ EmailAttrSel(info)
       /\ \/ CaptureEmailPat(JoinWith(<<OrEmpty(info.id), OrEmpty(info.name), "",
                                        OrEmpty(info.aria_label), OrEmpty(info.type)>>, " "))
          \/ Lower(OrEmpty(info.type)) = "email"

\* _find_password_candidates: found by its label, or by attr_sel
captureLooksLikePasswordField(info) ==
    \/ PassPat(OrEmpty(info.aria_label))
    \/ /\ info.tag = "input"
       /\ \/ Lower(OrEmpty(info.type)) = "password"
          \/ Contains(Lower(OrEmpty(info.name)), "pass")
          \/ Contains(Lower(OrEmpty(info.id)), "pass")

----------------------------------------------------------------------------
(* Claims about the capture pipeline *)

Lines == 1..Len(session)

HasEl(ev) == "el" \in DOMAIN ev /\ ev["el"] # NullEl

\* the field of line i classifies as secret
SecretLine(i) == HasEl(session[i]) /\ looksLikePasswordField(ElFromEvent(session[i]))

\* the value an input or change line carries
LineValue(ev) == IF ev["etype"] = "input" THEN Get(ev, "input_value") ELSE Get(ev, "value")

\* line i stores the marker in place of a real value of its field
RedactedLine(i) ==
    /\ session[i]["etype"] \in {"input", "change"}
    /\ LineValue(session[i]) = REDACTED
    /\ Truthy(domLog[i].value) /\ domLog[i].value # REDACTED

\* every copy of the field value a line carries
Copies(ev) ==
    {Get(ev, k) : k \in {"input_value", "value"} \cap DOMAIN ev}
      \cup (IF HasEl(ev) THEN {Get(ev["el"], "value_preview")} ELSE {})

\* C1: every input or change line of a field that classifies as secret (by its
\* declared type or by the pass pattern on its id, name or label) and holds a
\* value stores the redaction marker, never the value.
C1_SecretValuesRedacted ==
    \A i \in Lines :
        (session[i]["etype"] \in {"input", "change"} /\ SecretLine(i)
            /\ Truthy(domLog[i].value))
        => LineValue(session[i]) = REDACTED

\* C2: in every line that carries an element descriptor, whatever its kind, the
\* value_preview of a field that holds a value is the marker when the field
\* classifies as secret or holds a value an earlier line stored redacted.
C2_PreviewRedacted ==
    \A i \in Lines :
        (/\ HasEl(session[i])
         /\ Truthy(domLog[i].value)
         /\ session[i]["el"]["value_preview"] # Null
         /\ \/ SecretLine(i)
            \/ \E j \in 1..(i - 1) : RedactedLine(j) /\ domLog[j].value = domLog[i].value)
        => session[i]["el"]["value_preview"] = REDACTED

\* C3: no partial redaction: in every line, if one copy of the field value
\* (input_value, value, el.value_preview) is the marker, every copy present is.
C3_NoPartialRedaction ==
    \A i \in Lines :
        LET present == Copies(session[i]) \ {Null}
        IN  REDACTED \in present => present = {REDACTED}

\* a line in which the binding replaced a real value, with a nested copy
C3_Witness ==
    \E i \in Lines :
        /\ RedactedLine(i)
        /\ domLog[i].el.typeAttr # "password"
        /\ Cardinality(Copies(session[i])) = 1
        /\ {"input_value", "value"} \subseteq DOMAIN session[i]
        /\ session[i]["el"]["value_preview"] = REDACTED

\* C4: redaction is idempotent: a line that went through the redaction step
\* comes out of a second pass unchanged.
C4_RedactIdempotent ==
    \A i \in Lines : Redact(session[i]) = session[i]

\* a stored line of a password field, which the second pass masks again
C4_Witness ==
    \E i \in Lines :
        /\ session[i]["etype"] = "input"
        /\ Get(session[i]["el"], "type") = "password"
        /\ session[i]["input_value"] = REDACTED
        /\ domLog[i].value = "s3cr3t"

\* how often sub occurs in s
CountSub(s, sub) ==
    Cardinality({i \in 1..(Len(s) - Len(sub) + 1) : SubSeq(s, i, i + Len(sub) - 1) = sub})

\* the segments of a structural path below its first, i.e. those of ancestors
CssAncestors(css) == CountSub(css, " > ")

\* the segments of a positional path "//a[1]/b[1]/..." below its first
XPathAncestors(xp) == CountSub(SubSeq(xp, 3, Len(xp)), "/")

\* C12: whatever the depth of the node, its structural path holds the node's
\* own segment and at most 6 ancestor segments, its positional path the
\* node's own and at most 8.
C12_SelectorDepthBound ==
    \A i \in Lines :
        HasEl(session[i]) =>
            LET sel == session[i]["el"]["selectors"]
            IN  /\ Truthy(sel.css) => CssAncestors(sel.css) <= 6
                /\ Truthy(sel.xpath) => XPathAncestors(sel.xpath) <= 8

\* a click on a node with more than 8 ancestors was recorded with paths cut
\* to exactly 6 and 8 of them
C12_Witness ==
    \E i \in Lines :
        /\ session[i]["etype"] = "click"
        /\ Len(domLog[i].el.chain) > 9
        /\ CssAncestors(session[i]["el"]["selectors"].css) = 6
        /\ XPathAncestors(session[i]["el"]["selectors"].xpath) = 8

\* a field neither the recorder's nor the runner's rules take for the
\* identity or the secret
NoneField(info) ==
    /\ ~captureLooksLikeEmailField(info) /\ ~captureLooksLikePasswordField(info)
    /\ ~looksLikeEmailField(info) /\ ~looksLikePasswordField(info)

\* C29: a field that classifies as none is left untouched by redaction: the
\* value stored for an input or change event on it is the value captured,
\* never the marker in its place.
C29_NoneFieldUntouched ==
    \A i \in Lines :
        (/\ session[i]["etype"] \in {"input", "change"}
         /\ HasEl(session[i])
         /\ NoneField(ElFromEvent(session[i])))
        => LineValue(session[i]) = sentVal(fieldVal(domLog[i].el, domLog[i].value))

\* C18: every line of the session, of every kind, carries a capture timestamp
\* and the URL of the page at the time of capture.
C18_TimestampAndUrl ==
    \A i \in Lines :
        /\ Truthy(Get(session[i], "t"))
        /\ Truthy(Get(session[i], "url"))

----------------------------------------------------------------------------
(* The runner, src/replay/runner.py: knobs, timestamps, pacing *)

STEP_DELAY_MS == 350
TIMESCALE == 1
MAX_GAP_MS == 1500
WAIT_AFTER_CLICK_MS == 250
NETWORKIDLE_TIMEOUT_MS == 8000
IGNORED_DELAY_MS == 50

\* The longest log of the pacing scenarios.
MaxLog == 3

Min(a, b) == IF a < b THEN a ELSE b
Max(a, b) == IF a > b THEN a ELSE b

\* An ISO-8601 capture timestamp yyyy-mm-ddTHH:MM:SS.sssZ, by its parts.
Stamp(day, hh, mm, ss, ms) == [day |-> day, hh |-> hh, mm |-> mm, ss |-> ss, ms |-> ms]

\* The instant a timestamp names, in ms (what "t1 < t2" compares).
Instant(t) == (((t.day * 24 + t.hh) * 60 + t.mm) * 60 + t.ss) * 1000 + t.ms

\* None of _event_time_ms
NoTime == -1

\* _event_time_ms: the time of day in ms; the date is parsed and dropped
EventTimeMs(ev) ==
    IF "t" \notin DOMAIN ev THEN NoTime
    ELSE LET t == ev["t"] IN (t.hh * 3600 + t.mm * 60 + t.ss) * 1000 + t.ms

\* rel_times
RelTimes(evs) ==
    LET t0 == EventTimeMs(evs[1])
        base == IF t0 = NoTime THEN 0 ELSE t0
    IN  [i \in 1..Len(evs) |->
            IF EventTimeMs(evs[i]) = NoTime THEN NoTime
            ELSE Max(0, (EventTimeMs(evs[i]) - base) \div TIMESCALE)]

\* a pacing step that sleeps the whole distance to the recorded offset
PaceGapUncapped(rel, elapsed) ==
    IF rel # NoTime /\ rel - elapsed > 0 THEN rel - elapsed ELSE 0

\* the sleep of the pacing step, for a target offset and the time elapsed
PaceGap(rel, elapsed) ==
    IF rel # NoTime /\ rel - elapsed > 0 THEN Min(rel - elapsed, MAX_GAP_MS) ELSE 0

\* a loop that passes over every other event
NextIndexSkipping(i) == i + 2

\* the loop variable after one iteration
NextIndex(i) == i + 1

\* a line of the file that is blank, and one that is not JSON
BlankLine == [raw |-> ""]
BadLine == [raw |-> "{bad"]

\* line.strip() is not empty
NotBlank(line) == ~("raw" \in DOMAIN line /\ line["raw"] = "")

\* orjson.loads(line) returns: every other line of the model is the object it
\* parses to
Parses(line) == "raw" \notin DOMAIN line

\* a loader that passes over the lines it cannot parse
LoadEventsLenient(f) == [raised |-> FALSE, events |-> SelectSeq(f, Parses)]

\* the loading loop: the events of the non-blank lines, or the exception of
\* the first line that does not parse
LoadEvents(f) ==
    LET lines == SelectSeq(f, NotBlank)
    IN  IF \E i \in 1..Len(lines) : ~Parses(lines[i])
        THEN [raised |-> TRUE, events |-> <<>>]
        ELSE [raised |-> FALSE, events |-> lines]

\* `a or b` on optional strings
Or(a, b) == IF Truthy(a) THEN a ELSE b

\* a scan that finds no initial URL
StartUrlNone(evs) == Null

\* a scan in which the first URL found is kept, whatever comes later
RECURSIVE StartUrlFromKeepFirst(_, _, _)
StartUrlFromKeepFirst(evs, i, cur) ==
    IF i > Len(evs) THEN cur
    ELSE LET ev == evs[i]
             meta == IF "meta" \in DOMAIN ev THEN ev["meta"] ELSE <<>>
             here == IF Get(ev, "etype") = "nav" /\ Get(meta, "reason") \in {"load", "popstate"}
                     THEN IF Truthy(Get(ev, "to_url")) THEN Get(ev, "to_url") ELSE Get(ev, "url")
                     ELSE Get(ev, "url")
         IN  StartUrlFromKeepFirst(evs, i + 1, IF Truthy(cur) THEN cur ELSE here)

\* the scan for the initial URL
RECURSIVE StartUrlFrom(_, _, _)
StartUrlFrom(evs, i, cur) ==
    IF i > Len(evs) THEN cur
    ELSE LET ev == evs[i]
             meta == IF "meta" \in DOMAIN ev THEN ev["meta"] ELSE NoMeta
         IN  IF Get(ev, "etype") = "nav" /\ Get(meta, "reason") \in {"load", "popstate"}
             THEN Or(Get(ev, "to_url"), Get(ev, "url"))
             ELSE StartUrlFrom(evs, i + 1, IF Truthy(cur) THEN cur ELSE Get(ev, "url"))

StartUrl(evs) == StartUrlFrom(evs, 1, Null)

----------------------------------------------------------------------------
(* Locator resolution, _best_locator *)

PageElems == {"elemA", "elemB"}

Cand(kind, sel) == [kind |-> kind, sel |-> sel]

\* cands, in the order the code appends them
Candidates(info) ==
    LET name_source == Or(info.aria_label, Or(info.title, Or(info.text, "")))
    IN  (IF Truthy(info.selectors_css) THEN <<Cand("css", info.selectors_css)>> ELSE <<>>)
        \o (IF Truthy(info.id) THEN <<Cand("id", "#" \o info.id)>> ELSE <<>>)
        \o (IF Truthy(info.role) /\ Truthy(name_source)
            THEN <<Cand("role", info.role \o "=" \o name_source)>> ELSE <<>>)
        \o (IF info.tag \in {"button", "a"} /\ Truthy(info.text)
            THEN <<Cand("buttontext", info.text), Cand("text", info.text)>> ELSE <<>>)
        \o (IF Truthy(info.selectors_xpath)
            THEN <<Cand("xpath", "xpath=" \o info.selectors_xpath)>> ELSE <<>>)
        \o (IF Truthy(info.name) THEN <<Cand("name", "[name=" \o info.name \o "]")>> ELSE <<>>)

\* what each candidate's first match is when its wait runs: a visible element
\* of the page, or none
Snapshots(cands) == [1..Len(cands) -> PageElems \cup {"none"}]

Loc(c, elem) == [kind |-> c.kind, sel |-> c.sel, elem |-> elem]

\* the loop over cands from position i on
RECURSIVE FirstVisibleFrom(_, _, _)
FirstVisibleFrom(cands, sn, i) ==
    IF i > Len(cands)
    THEN IF Len(cands) > 0 THEN Loc(cands[1], "none")
         ELSE [kind |-> "html", sel |-> "html", elem |-> "root"]
    ELSE IF sn[i] # "none" THEN Loc(cands[i], sn[i])
    ELSE FirstVisibleFrom(cands, sn, i + 1)

\* a resolution that lets a later visible candidate override an earlier one
RECURSIVE LastVisibleFrom(_, _, _)
LastVisibleFrom(cands, sn, i) ==
    IF i = 0
    THEN IF Len(cands) > 0 THEN Loc(cands[1], "none")
         ELSE [kind |-> "html", sel |-> "html", elem |-> "root"]
    ELSE IF sn[i] # "none" THEN Loc(cands[i], sn[i])
    ELSE LastVisibleFrom(cands, sn, i - 1)

BestLocatorLast(cands, sn) == LastVisibleFrom(cands, sn, Len(cands))

BestLocator(cands, sn) == FirstVisibleFrom(cands, sn, 1)

----------------------------------------------------------------------------
(* The event loop of replay() *)

HomeUrl == "https://example.test/home"
Urls == {PageUrl, HomeUrl}

Act(op, loc, value) ==
    [op |-> op, kind |-> loc.kind, sel |-> loc.sel, elem |-> loc.elem, value |-> value]

PageLoc == [kind |-> "page", sel |-> "", elem |-> "page"]

\* maybe_autofill_credentials: nothing unless both credentials are configured
Autofill(c) ==
    IF Truthy(c.user) /\ Truthy(c.pass)
    THEN <<Act("autofill", PageLoc, c.user), Act("autofill", PageLoc, c.pass)>>
    ELSE <<>>

\* the time _maybe_wait_for_nav takes: the URL poll runs to its timeout unless
\* the URL differs from prev_url, the network-idle wait to its timeout unless
\* the network goes idle
SettleMs(url, prev, idle) ==
    (IF url # prev THEN 0 ELSE NETWORKIDLE_TIMEOUT_MS)
      + (IF idle THEN 0 ELSE NETWORKIDLE_TIMEOUT_MS)

\* _maybe_wait_for_nav: the waits it runs, in order, and how each ended
SettleWaits(changed, idle) ==
    <<Act("waiturl", PageLoc, IF changed THEN "changed" ELSE "timeout"),
      Act("waitidle", PageLoc, IF idle THEN "idle" ELSE "timeout")>>
      \o (IF ~changed THEN <<Act("waitdom", PageLoc, "")>> ELSE <<>>)

\* a click branch that never takes a click for a transitional one
TransitionalPatNever(label) == FALSE

\* (continue|next|login|sign\s*in|submit), re.I
TransitionalPat(label) ==
    LET h == Lower(label)
    IN  \/ Contains(h, "continue")
        \/ Contains(h, "next")
        \/ Contains(h, "login")
        \/ Contains(h, "submit")
        \/ \E i \in 1..Len(h), j \in 1..Len(h) :
              /\ i + 4 <= j
              /\ SubSeq(h, i, i + 3) = "sign"
              /\ \A k \in (i + 4)..(j - 1) : SubSeq(h, k, k) = " "
              /\ j + 1 <= Len(h)
              /\ SubSeq(h, j, j + 1) = "in"

\* the keys of the keydown branch
ReplayedKeys == {"Enter", "Tab", "Escape", "ArrowDown", "ArrowUp"}

\* a keydown branch without its filter
IsReplayedKeyAny(key) == TRUE

IsReplayedKey(key) == key \in ReplayedKeys

\* an input branch that takes an unclassified field for the identity field
InputValueGuessing(ev, info, c) ==
    IF looksLikePasswordField(info) THEN c.pass ELSE c.user

\* an input branch that enters what the log recorded, marker or not
InputValueRecorded(ev, info, c) == Get(ev, "input_value")

\* what the input branch enters for a redacted input, Null when it skips
InputValue(ev, info, c) ==
    LET value_to_use == IF looksLikePasswordField(info) THEN c.pass
                        ELSE IF looksLikeEmailField(info) THEN c.user
                        ELSE Null
    IN  IF Truthy(value_to_use) THEN value_to_use ELSE Null

\* the operations _fill_locator may get to: fill, then click and fill, then type
FillLocatorRuns(loc, v) ==
    {<<Act("fill", loc, v)>>,
     <<Act("fill", loc, v), Act("click", loc, ""), Act("fill", loc, v)>>,
     <<Act("fill", loc, v), Act("click", loc, ""), Act("type", loc, v)>>,
     <<Act("fill", loc, v), Act("click", loc, ""), Act("fill", loc, v),
       Act("type", loc, v)>>}

\* the operations of the plain input branch: fill, on failure click and type
PlainInputRuns(loc, recorded) ==
    LET v == IF Truthy(recorded) THEN recorded ELSE ""
    IN  {<<Act("fill", loc, v)>>,
         <<Act("fill", loc, v), Act("click", loc, "")>>
            \o (IF Truthy(recorded) THEN <<Act("type", PageLoc, recorded)>> ELSE <<>>)}

\* a click branch that goes on forcing the click after the forced click failed
ClickAttemptsRetrying(loc, outcome) ==
    <<Act("click", loc, "")>>
      \o (IF outcome # "clicked"
          THEN <<Act("except", loc, "click"), Act("forceclick", loc, "")>> ELSE <<>>)
      \o (IF outcome = "failed"
          THEN <<Act("except", loc, "forceclick"), Act("forceclick", loc, ""),
                 Act("except", loc, "forceclick")>> ELSE <<>>)

\* the click branch: loc.click(), in its except clause loc.click(force=True),
\* in the except clause of that the message "click failed"
ClickAttempts(loc, outcome) ==
    <<Act("click", loc, "")>>
      \o (IF outcome # "clicked"
          THEN <<Act("except", loc, "click"), Act("forceclick", loc, "")>> ELSE <<>>)
      \o (IF outcome = "failed" THEN <<Act("except", loc, "forceclick")>> ELSE <<>>)

Ev == events[idx]

\* on a dead page no element becomes visible, no click lands, the URL stays
\* and the network never goes idle
Dead == env = "dead"

\* a wait without a timeout: it ends only when what it waits for has come
WaitEndsWhenMet(met) == met

\* every wait of the runner has a timeout: it ends whether or not what it
\* waits for has come
WaitEnds(met) == TRUE

\* the waits of _maybe_wait_for_nav
SettleEnds(changed, idle) == WaitEnds(changed) /\ WaitEnds(idle)

\* the waits of _best_locator: one per candidate, up to the first visible one
ResolveEnds(sn) ==
    \A i \in 1..Len(sn) : (\A j \in 1..(i - 1) : sn[j] = "none") => WaitEnds(sn[i] # "none")

\* an event loop that takes a submit event into the click branch
BranchSubmitClicks(et) ==
    IF et = "submit" THEN "click"
    ELSE IF et \in {"nav", "click", "input", "keydown"} THEN et ELSE "ignored"

\* the branch of the loop body an event of type et is handled by
Branch(et) == IF et \in {"nav", "click", "input", "keydown"} THEN et ELSE "ignored"

ReplayFrame == UNCHANGED <<captureVars, jsonl, events, creds, env>>

\* a loop that lets the exception of a failed operation out
StepOutcomeRaising(bad) == IF bad THEN "aborted" ELSE "pace"

\* where the loop stands after a step: every operation of a step that can
\* fail is inside a try whose except clause goes on
StepOutcome(bad) == "pace"

\* every handler: acting on event idx begins now; afterwards the loop goes on
Handled(ms, bad) ==
    /\ begun' = Append(begun, idx)
    /\ beganAt' = Append(beganAt, clock)
    /\ failed' = Append(failed, bad)
    /\ clock' = clock + ms
    /\ idx' = NextIndex(idx)
    /\ pc' = StepOutcome(bad)
    /\ UNCHANGED slept

\* load the log, find the initial URL, open the page and go there
StartReplay ==
    /\ pc = "start"
    /\ LET loaded == LoadEvents(jsonl)
       IN  IF loaded.raised
           THEN /\ pc' = "crashed"     \* orjson.loads raised
                /\ UNCHANGED <<events, idx, pageUrl, prevUrl, acts>>
           ELSE /\ events' = loaded.events
                /\ IF loaded.events = <<>>
                   THEN /\ pc' = "done"
                        /\ UNCHANGED <<idx, pageUrl, prevUrl, acts>>
                   ELSE LET start_url == StartUrl(loaded.events)
                        IN  IF Truthy(start_url)
                            THEN \/ /\ pageUrl' = start_url
                                    /\ prevUrl' = start_url
                                    /\ acts' = <<Act("goto", PageLoc, start_url)>>
                                                  \o Autofill(creds)
                                    /\ idx' = 1
                                    /\ pc' = "pace"
                                 \/ /\ acts' = <<Act("goto", PageLoc, start_url)>>
                                    /\ pc' = "aborted"     \* page.goto raised
                                    /\ UNCHANGED <<idx, pageUrl, prevUrl>>
                            ELSE /\ acts' = Autofill(creds)
                                 /\ idx' = 1
                                 /\ pc' = "pace"
                                 /\ UNCHANGED <<pageUrl, prevUrl>>
    /\ UNCHANGED <<clock, slept, begun, beganAt, snap, resolved, failed>>
    /\ UNCHANGED <<captureVars, jsonl, creds, env>>

Pace ==
    /\ pc = "pace"
    /\ idx <= Len(events)
    /\ LET gap == PaceGap(RelTimes(events)[idx], clock)
       IN  /\ clock' = clock + gap
           /\ slept' = Append(slept, gap)
    /\ pc' = "act"
    /\ UNCHANGED <<idx, pageUrl, prevUrl, begun, beganAt, snap, resolved, acts, failed>>
    /\ ReplayFrame

HandleNav ==
    /\ pc = "act"
    /\ Branch(Get(Ev, "etype")) = "nav"
    /\ LET to_url == Or(Get(Ev, "to_url"), Get(Ev, "url"))
           go == Truthy(to_url) /\ pageUrl # to_url
       IN  \E arrived \in BOOLEAN, idle \in BOOLEAN :
              /\ arrived \/ go
              /\ Dead => (~idle /\ (go => ~arrived))
              /\ WaitEnds(~go \/ arrived)
              /\ pageUrl' = IF go /\ arrived THEN to_url ELSE pageUrl
              /\ SettleEnds(pageUrl' # prevUrl, idle)
              /\ prevUrl' = pageUrl'
              /\ acts' = (IF go THEN <<Act("goto", PageLoc, to_url)>> ELSE <<>>)
                            \o SettleWaits(pageUrl' # prevUrl, idle)
                            \o Autofill(creds)
              /\ Handled(SettleMs(pageUrl', prevUrl, idle) + STEP_DELAY_MS,
                         (go /\ ~arrived) \/ ~idle)
    /\ UNCHANGED <<snap, resolved>>
    /\ ReplayFrame

HandleClick ==
    /\ pc = "act"
    /\ Branch(Get(Ev, "etype")) = "click"
    /\ LET info == ElFromEvent(Ev)
           cands == Candidates(info)
           label == Or(info.text, Or(info.aria_label, Or(info.title, "")))
       IN  \E sn \in Snapshots(cands), outcome \in {"clicked", "forced", "failed"},
              u \in Urls, idle \in BOOLEAN :
              LET loc == BestLocator(cands, sn)
              IN  /\ outcome = "failed" => u = pageUrl
                  /\ Dead => ((\A i \in 1..Len(sn) : sn[i] = "none")
                                /\ outcome = "failed" /\ ~idle)
                  /\ ResolveEnds(sn)
                  /\ WaitEnds(outcome = "clicked")
                  /\ WaitEnds(outcome # "failed")
                  /\ SettleEnds(u # prevUrl, idle)
                  /\ snap' = sn
                  /\ resolved' = loc
                  /\ pageUrl' = u
                  /\ prevUrl' = u
                  /\ acts' = ClickAttempts(loc, outcome)
                        \o SettleWaits(u # prevUrl, idle)
                        \o (IF TransitionalPat(label) THEN Autofill(creds) ELSE <<>>)
                  /\ Handled(WAIT_AFTER_CLICK_MS + SettleMs(u, prevUrl, idle) + STEP_DELAY_MS,
                             outcome = "failed" \/ loc.elem = "none" \/ ~idle)
    /\ ReplayFrame

HandleInput ==
    /\ pc = "act"
    /\ Branch(Get(Ev, "etype")) = "input"
    /\ LET info == ElFromEvent(Ev)
           cands == Candidates(info)
           recorded_val == Get(Ev, "input_value")
       IN  \E sn \in Snapshots(cands) :
              LET loc == BestLocator(cands, sn)
                  v == InputValue(Ev, info, creds)
                  runs == IF recorded_val = REDACTED
                          THEN IF v # Null THEN FillLocatorRuns(loc, v) ELSE {<<>>}
                          ELSE PlainInputRuns(loc, recorded_val)
              IN  \E run \in runs :
                     /\ Dead => ((\A i \in 1..Len(sn) : sn[i] = "none")
                                   /\ Len(run) # 1)
                     /\ ResolveEnds(sn)
                     /\ WaitEnds(Len(run) <= 1)
                     /\ snap' = sn
                     /\ resolved' = loc
                     /\ acts' = run
                     /\ Handled(STEP_DELAY_MS, loc.elem = "none" \/ Len(run) > 1)
    /\ UNCHANGED <<pageUrl, prevUrl>>
    /\ ReplayFrame

HandleKeydown ==
    /\ pc = "act"
    /\ Branch(Get(Ev, "etype")) = "keydown"
    /\ acts' = IF IsReplayedKey(Get(Ev, "key"))
               THEN <<Act("press", PageLoc, Get(Ev, "key"))>> ELSE <<>>
    /\ \E raised \in BOOLEAN :
          /\ raised => IsReplayedKey(Get(Ev, "key"))
          /\ Handled(STEP_DELAY_MS \div 2, raised)
    /\ UNCHANGED <<pageUrl, prevUrl, snap, resolved>>
    /\ ReplayFrame

\* change, submit and visibility are ignored
HandleIgnored ==
    /\ pc = "act"
    /\ Branch(Get(Ev, "etype")) = "ignored"
    /\ acts' = <<>>
    /\ Handled(IGNORED_DELAY_MS, FALSE)
    /\ UNCHANGED <<pageUrl, prevUrl, snap, resolved>>
    /\ ReplayFrame

Finish ==
    /\ pc = "pace"
    /\ idx > Len(events)
    /\ pc' = "done"
    /\ UNCHANGED <<idx, pageUrl, prevUrl, clock, slept, begun, beganAt, snap, resolved,
                   acts, failed>>
    /\ ReplayFrame

NextReplay ==
    \/ StartReplay
    \/ Pace
    \/ HandleNav
    \/ HandleClick
    \/ HandleInput
    \/ HandleKeydown
    \/ HandleIgnored
    \/ Finish

----------------------------------------------------------------------------
(* The logs and credentials replay is run on *)

WithT(ev, t) == SetKey(ev, "t", t)

\* one second, ten seconds and a tenth of a second apart
Times == {Stamp(1, 10, 0, 0, 0), Stamp(1, 10, 0, 1, 0), Stamp(1, 10, 0, 11, 0),
          Stamp(1, 10, 0, 11, 100)}

PacedKinds == {keydownPayload("Enter"), visPayload("hidden")}

\* events with a capture timestamp, and the same events as the recorder
\* writes them, without one
PacedEvents == PacedKinds \cup {WithT(e, t) : e \in PacedKinds, t \in Times}

PacingLogs == UNION {[1..n -> PacedEvents] : n \in 1..MaxLog}

\* every line the recorder can write
CaptureLines ==
    {Redact(inputPayload(el, v)) :
        el \in Fields \cup {ElEmail, ElEmailPass, ElAccount}, v \in Values}
      \cup {Redact(changePayload(el, v)) : el \in Fields \cup {ElEmail}, v \in Values}
      \cup {Redact(clickPayload(el, DomValue(el, v))) : el \in Elements, v \in {"", "s3cr3t"}}
      \cup {Redact(keydownPayload(k)) :
              k \in {"a", "A", "1", " ", "Enter", "Tab", "Escape", "ArrowDown",
                     "ArrowUp", "ArrowLeft", "ArrowRight", "Backspace", "F5"}}
      \cup {Redact(submitPayload(ElForm)), Redact(visPayload("visible")),
            Redact(navPayload("load")), Redact(navPayload("popstate"))}

\* a descriptor holding exactly the hints named in has
Descriptor(has) ==
    [tag |-> IF "text" \in has THEN "button" ELSE "div",
     id |-> IF "id" \in has THEN "go" ELSE Null,
     classes |-> Null,
     name |-> IF "name" \in has THEN "go" ELSE Null,
     type |-> Null,
     role |-> IF "role" \in has THEN "button" ELSE Null,
     ariaLabel |-> IF "role" \in has THEN "Go" ELSE Null,
     title |-> Null,
     text |-> IF "text" \in has THEN "Go on" ELSE Null,
     value_preview |-> Null,
     selectors |-> [css |-> IF "css" \in has THEN "body > div" ELSE Null,
                    xpath |-> IF "xpath" \in has THEN "//html[1]/body[1]/div[1]" ELSE Null]]

Hints == {"css", "id", "role", "text", "xpath", "name"}

DescriptorEvents ==
    {[etype |-> "click", url |-> PageUrl, x |-> 0, y |-> 0, button |-> "left",
      el |-> Descriptor(has), meta |-> NoMeta] : has \in SUBSET Hints}
      \cup {[etype |-> "input", url |-> PageUrl, el |-> Descriptor(has),
             input_value |-> "abc", meta |-> NoMeta] : has \in SUBSET Hints}
      \cup {[etype |-> "click", url |-> PageUrl, x |-> 0, y |-> 0, button |-> "left",
             el |-> NullEl, meta |-> NoMeta]}

\* a click on a button with the given text, ARIA label and title
LabelledClick(text, aria, title) ==
    [etype |-> "click", url |-> PageUrl, x |-> 0, y |-> 0, button |-> "left",
     el |-> [tag |-> "button", id |-> Null, classes |-> Null, name |-> Null,
             type |-> Null, role |-> Null, ariaLabel |-> aria, title |-> title,
             text |-> text, value_preview |-> Null,
             selectors |-> [css |-> "body > button", xpath |-> Null]],
     meta |-> NoMeta]

LabelEvents ==
    {LabelledClick(t, a, ti) :
        t \in {"", "OK", "Next"}, a \in {Null, "Continue"}, ti \in {Null, "Submit form"}}

NavEvents ==
    {[etype |-> "nav", from_url |-> Null, to_url |-> u, meta |-> [reason |-> r]] :
        u \in Urls \cup {Null}, r \in {"load", "pushstate"}}

NavLogs == {<<a, b>> : a \in NavEvents \cup {visPayload("hidden")}, b \in NavEvents}

\* an element nothing on the page matches any more, then a key
SkipLogs == {<<e, keydownPayload("Enter")>> :
                e \in {x \in DescriptorEvents :
                          Cardinality(DOMAIN x) > 0 /\ Len(Candidates(ElFromEvent(x))) <= 1}}

Configured == [user |-> "alice@example.test", pass |-> "s3cr3t"]

\* a recorded login: the page loads, the identity and the secret are typed
\* (and written redacted), the button is clicked
LoginLogs ==
    {<<navPayload("load"), Redact(inputPayload(i, "alice@example.test")),
       Redact(inputPayload(p, "s3cr3t")), clickPayload(ElButton, "")>> :
        i \in {ElEmail, ElUser}, p \in {ElPwd}}

CredsSet == {Configured, [user |-> "", pass |-> ""], [user |-> "", pass |-> "s3cr3t"]}

\* a short recording, and the files it makes with a blank line or a line
\* that is not JSON put at any place
BaseLog == <<navPayload("load"), keydownPayload("Enter"), visPayload("hidden")>>

InsertAt(f, i, line) == SubSeq(f, 1, i - 1) \o <<line>> \o SubSeq(f, i, Len(f))

BrokenFiles ==
    {InsertAt(BaseLog, i, l) : i \in 1..(Len(BaseLog) + 1), l \in {BadLine, BlankLine}}
      \cup {<<BadLine>>, <<BlankLine>>}

\* recordings in which the page load is written at any place: a load with
\* its target, a popstate that has only a url, a navigation of another
\* reason, and two events that carry the url of their page
StartEvents ==
    {[etype |-> "nav", from_url |-> Null, to_url |-> HomeUrl, meta |-> [reason |-> "load"]],
     [etype |-> "nav", from_url |-> Null, to_url |-> Null, url |-> PageUrl,
      meta |-> [reason |-> "popstate"]],
     [etype |-> "nav", from_url |-> Null, to_url |-> PageUrl, meta |-> [reason |-> "pushstate"]],
     [etype |-> "visibility", url |-> HomeUrl, state |-> "hidden", meta |-> NoMeta],
     keydownPayload("Enter")}

StartLogs == UNION {[1..n -> StartEvents] : n \in 1..MaxLog}

Scenario(log, c) == [log |-> log, creds |-> c]

Scenarios ==
    {Scenario(log, Configured) :
        log \in PacingLogs \cup NavLogs \cup SkipLogs \cup LoginLogs \cup BrokenFiles
                  \cup StartLogs \cup {<<>>}}
      \cup {Scenario(<<e>>, Configured) : e \in DescriptorEvents \cup LabelEvents}
      \cup {Scenario(<<e>>, c) : e \in CaptureLines, c \in CredsSet}

\* replay is started on a file, with the credentials of config
ReplayStart ==
    /\ CaptureIdle
    /\ \E sc \in Scenarios : jsonl = sc.log /\ creds = sc.creds
    /\ events = <<>>
    /\ pc = "start"
    /\ idx = 0
    /\ pageUrl = "about:blank"
    /\ prevUrl = "about:blank"
    /\ clock = 0
    /\ slept = <<>>
    /\ begun = <<>>
    /\ beganAt = <<>>
    /\ snap = <<>>
    /\ resolved = [kind |-> "none", sel |-> "", elem |-> "none"]
    /\ acts = <<>>
    /\ failed = <<>>

InitReplay == ReplayStart /\ env = "any"

SpecReplay == InitReplay /\ [][NextReplay]_vars

\* the logs whose steps can fail: a navigation, a click or an input on an
\* element that may be gone, a key press
FailureScenarios == {Scenario(log, Configured) : log \in NavLogs \cup SkipLogs}

InitReplayFair ==
    /\ ReplayStart
    /\ [log |-> jsonl, creds |-> creds] \in FailureScenarios
    /\ env \in {"any", "dead"}

\* replay() is one coroutine and each of its waits is bounded: a step that
\* can be taken is taken
SpecReplayFair == InitReplayFair /\ [][NextReplay]_vars /\ WF_vars(NextReplay)

----------------------------------------------------------------------------
(* Claims about replay *)

\* an event has been handled; acts, and after a click or input snap and
\* resolved, are those of LastEv
Handled1 == pc \in {"pace", "act", "done"} /\ begun # <<>>

LastEv == events[begun[Len(begun)]]

ActsOf(ops) == {k \in 1..Len(acts) : acts[k].op \in ops}

EntersText == {"fill", "type", "autofill"}

\* C5: an input line stored redacted because its field classifies as secret
\* is, with a secret configured, re-filled with that secret, and no step of
\* replay ever enters the marker into the page.
C5_SecretRefilled ==
    /\ \A k \in ActsOf(EntersText \cup {"press"}) : acts[k].value # REDACTED
    /\ (/\ Handled1
        /\ Get(LastEv, "etype") = "input"
        /\ Get(LastEv, "input_value") = REDACTED
        /\ looksLikePasswordField(ElFromEvent(LastEv))
        /\ Truthy(creds.pass))
       => /\ acts # <<>>
          /\ acts[1] = Act("fill", resolved, creds.pass)
          /\ \A k \in ActsOf(EntersText) : acts[k].value = creds.pass

\* the redacted input of a field declared type="PASSWORD" was filled with
\* the configured secret
C5_Witness ==
    /\ Handled1
    /\ Get(LastEv, "etype") = "input"
    /\ Get(LastEv, "input_value") = REDACTED
    /\ Get(GetEl(LastEv), "type") = "PASSWORD"
    /\ acts # <<>>
    /\ acts[1].op = "fill" /\ acts[1].value = "s3cr3t"

CandRank(kind) ==
    CASE kind = "css" -> 1 [] kind = "id" -> 2 [] kind = "role" -> 3
      [] kind = "buttontext" -> 4 [] kind = "text" -> 5 [] kind = "xpath" -> 6
      [] kind = "name" -> 7

LastCands == Candidates(ElFromEvent(LastEv))

Resolving == Handled1 /\ Get(LastEv, "etype") \in {"click", "input"}

\* C6: the candidates are tried in the order structural selector, id, role and
\* name, text, positional selector, name attribute, and the locator returned is
\* that of the earliest candidate that is visible, whatever later candidates
\* match.
C6_PriorityOrder ==
    Resolving =>
        /\ \A i \in 1..Len(LastCands), j \in 1..Len(LastCands) :
              i < j => CandRank(LastCands[i].kind) < CandRank(LastCands[j].kind)
        /\ \A m \in 1..Len(LastCands) :
              (snap[m] # "none" /\ \A i \in 1..(m - 1) : snap[i] = "none")
              => resolved = Loc(LastCands[m], snap[m])

\* the id candidate won although the text candidate showed another element
C6_Witness ==
    /\ Resolving
    /\ resolved.kind = "id"
    /\ \E j \in 1..Len(LastCands) :
          /\ LastCands[j].kind = "text"
          /\ snap[j] \notin {"none", resolved.elem}

\* C7: when no candidate is visible, or there is none, resolution ends
\* NotFound and the step is skipped: no click, fill or typing is attempted for
\* the event.
C7_NotFoundSkipsStep ==
    (Resolving /\ \A i \in 1..Len(LastCands) : snap[i] = "none")
    => ActsOf({"click", "forceclick", "fill", "type"}) = {}

HasT(i) == "t" \in DOMAIN events[i]

Began(i) == \E k \in 1..Len(begun) : begun[k] = i

BeganBefore(a, b) ==
    \E k \in 1..Len(begun), l \in 1..Len(begun) : k < l /\ begun[k] = a /\ begun[l] = b

Earlier(a, b) == HasT(a) /\ HasT(b) /\ Instant(events[a]["t"]) < Instant(events[b]["t"])

\* C8 as claimed: of two events with capture timestamps t1 < t2, acting on the
\* t2 event never begins before acting on the t1 event has begun.
C8_TimestampOrder ==
    \A a \in 1..Len(events), b \in 1..Len(events) :
        (Earlier(a, b) /\ Began(b)) => BeganBefore(a, b)

\* C8 amended: the same, of two events of which the t1 event comes first in
\* the file.
C8_FileOrder ==
    \A a \in 1..Len(events), b \in 1..Len(events) :
        (a < b /\ Earlier(a, b) /\ Began(b)) => BeganBefore(a, b)

\* two events a tenth of a second apart, acted on in turn
C8_Witness ==
    \E a \in 1..Len(events), b \in 1..Len(events) :
        a < b /\ Earlier(a, b) /\ BeganBefore(a, b)

\* every event carries a capture timestamp and the file is in timestamp order
TimedInOrder ==
    \A a \in 1..Len(events), b \in 1..Len(events) :
        /\ HasT(a)
        /\ (a < b /\ HasT(b)) => Instant(events[a]["t"]) <= Instant(events[b]["t"])

\* C9: of consecutive events with t1 < t2 the delay before the t2 event is
\* min(t2 - t1, MAX_GAP) / TIMESCALE, whatever the gaps before. Read in the
\* claim's favour: the log is fully stamped and in timestamp order, and time
\* already spent handling earlier events may be taken off the delay, so the
\* sleep before the t2 event is at most that amount.
C9_ConsecutiveGapDelay ==
    TimedInOrder =>
    \A i \in 2..Len(slept) :
        Earlier(i - 1, i)
        => slept[i] <= Min(Instant(events[i]["t"]) - Instant(events[i - 1]["t"]),
                           MAX_GAP_MS) \div TIMESCALE

\* the keys the specification lets replay press
ControlKeys == {"Enter", "Tab", "Escape", "ArrowUp", "ArrowDown", "ArrowLeft", "ArrowRight"}

\* C10: a keydown of a printable key is never replayed as a key press; only
\* control keys of the allow-list are pressed.
C10_PrintableKeysNotPressed ==
    /\ \A k \in ActsOf({"press"}) :
          /\ acts[k].value \in ControlKeys
          /\ Handled1 /\ Get(LastEv, "etype") = "keydown"
          /\ acts[k].value = Get(LastEv, "key")
    /\ (Handled1 /\ Get(LastEv, "etype") = "keydown" /\ Len(Get(LastEv, "key")) = 1)
       => acts = <<>>

\* the keydown of "a" was handled and nothing was pressed
C10_Witness ==
    /\ Handled1
    /\ pc = "pace"
    /\ Get(LastEv, "etype") = "keydown"
    /\ Get(LastEv, "key") = "a"
    /\ acts = <<>>

\* replay runs on a recorded login with both credentials configured
LoginRun == events \in LoginLogs /\ creds = Configured

\* C11: replaying [nav to the login URL, redacted input on an identity field,
\* redacted input on a secret field, click on the "Sign In" button] with an
\* identity and a secret configured goes to the URL first, then fills the
\* identity field with the identity, then the secret field with the secret and
\* never the marker, then clicks the resolved button and waits for a URL
\* change before the step ends.
C11_LoginFlow ==
    LoginRun =>
        /\ \A k \in 1..Len(begun) : begun[k] = k
        /\ \A k \in ActsOf(EntersText) : acts[k].value # REDACTED
        /\ begun = <<>> =>
              /\ acts # <<>>
              /\ acts[1] = Act("goto", PageLoc, events[1]["to_url"])
        /\ Len(begun) = 2 =>
              /\ acts # <<>>
              /\ acts[1] = Act("fill", resolved, creds.user)
              /\ \A k \in ActsOf(EntersText) : acts[k].value = creds.user
        /\ Len(begun) = 3 =>
              /\ acts # <<>>
              /\ acts[1] = Act("fill", resolved, creds.pass)
              /\ \A k \in ActsOf(EntersText) : acts[k].value = creds.pass
        /\ Len(begun) = 4 =>
              /\ acts # <<>>
              /\ acts[1] = Act("click", resolved, "")
              /\ resolved = BestLocator(LastCands, snap)
              /\ \E k \in ActsOf({"waiturl"}) :
                    /\ \A j \in ActsOf({"click", "forceclick"}) : j < k
                    /\ acts[k].value = "changed" <=> pageUrl # events[1]["to_url"]

\* the login was replayed to its end: the button was found by its role and
\* name, and the click led to another URL
C11_Witness ==
    /\ LoginRun
    /\ pc = "done"
    /\ begun = <<1, 2, 3, 4>>
    /\ resolved.kind = "buttontext"
    /\ resolved.elem # "none"
    /\ \E k \in ActsOf({"waiturl"}) : acts[k].value = "changed"

\* the event loop has been entered
LoopStarted == pc \in {"pace", "act"} /\ idx >= 1

\* every event of the log has been acted on, in file order
AllProcessed ==
    /\ pc = "done"
    /\ Len(begun) = Len(events)
    /\ \A k \in 1..Len(begun) : begun[k] = k

\* C13: once the event loop has started no failure of a step (resolution,
\* click, fill, key press, navigation, settle wait) ends replay: the step
\* after a failed step is processed like any other, and every event of the
\* log is eventually processed.
C13_NoStepAbortsReplay ==
    /\ [](idx >= 1 => /\ pc \in {"pace", "act", "done"}
                      /\ Len(failed) = Len(begun)
                      /\ \A k \in 1..Len(begun) : begun[k] = k
                      /\ idx = Len(begun) + 1)
    /\ (LoopStarted ~> AllProcessed)

\* a step failed and the step after it was processed
C13_Witness ==
    \E k \in 1..Len(begun) :
        /\ failed[k]
        /\ k < Len(begun)
        /\ begun[k + 1] = begun[k] + 1
        /\ Get(events[begun[k]], "etype") = "click"

\* some line of the file is not blank and does not parse
Malformed == \E i \in 1..Len(jsonl) : NotBlank(jsonl[i]) /\ ~Parses(jsonl[i])

\* C14: a file with a line that fails to parse, wherever the line sits, ends
\* replay with an error before anything is replayed: no navigation, click,
\* fill or key press is performed and no event is acted on.
C14_MalformedLogIsFatal ==
    Malformed =>
        /\ pc \in {"start", "crashed"}
        /\ events = <<>>
        /\ acts = <<>>
        /\ begun = <<>>
        /\ pageUrl = "about:blank"

\* replay ended on a file whose last line is the one that does not parse
C14_Witness ==
    /\ pc = "crashed"
    /\ Len(jsonl) > 1
    /\ \A i \in 1..(Len(jsonl) - 1) : Parses(jsonl[i])
    /\ ~Parses(jsonl[Len(jsonl)])
    /\ Get(jsonl[1], "etype") = "nav"

\* what the classifier is claimed to answer for a descriptor: by the declared
\* type first, then by the patterns, either pattern deciding where both match
ClaimedClasses(info) ==
    IF Truthy(info.type) /\ Lower(info.type) = "password" THEN {"secret"}
    ELSE IF Truthy(info.type) /\ Lower(info.type) = "email" THEN {"identity"}
    ELSE LET hay == JoinTruthy(<<info.id, info.name, info.aria_label, info.title,
                                 info.text>>)
             byPattern == (IF EmailPat(hay) THEN {"identity"} ELSE {})
                            \cup (IF PassPat(hay) THEN {"secret"} ELSE {})
         IN  IF byPattern = {} THEN {"none"} ELSE byPattern

\* the class the input branch acted on, seen from the value it entered
ActedClass ==
    IF acts = <<>> THEN "none"
    ELSE IF acts[1].value = creds.pass THEN "secret"
    ELSE IF acts[1].value = creds.user THEN "identity"
    ELSE "other"

\* C15: the classifier decides in priority order: declared type password is
\* secret, else declared type email is identity, else the patterns decide, else
\* none; so a redacted input of a type="email" field is re-filled with the
\* identity even when its name matches the pass pattern.
C15_ClassifierPriority ==
    (/\ Handled1
     /\ Get(LastEv, "etype") = "input"
     /\ Get(LastEv, "input_value") = REDACTED
     /\ creds = Configured)
    => ActedClass \in ClaimedClasses(ElFromEvent(LastEv))

\* C19: settling after a nav or click event waits first for a URL change, then
\* in every case for network idle, and waits for DOM-ready only as a fallback,
\* when neither of the two waits resolved.
C19_SettleOrder ==
    (Handled1 /\ Get(LastEv, "etype") \in {"nav", "click"})
    => /\ Cardinality(ActsOf({"waiturl"})) = 1
       /\ Cardinality(ActsOf({"waitidle"})) = 1
       /\ \A a \in ActsOf({"waiturl"}), b \in ActsOf({"waitidle"}) :
             /\ a < b
             /\ \A d \in ActsOf({"waitdom"}) :
                   /\ b < d
                   /\ acts[a].value = "timeout"
                   /\ acts[b].value = "timeout"
             /\ (acts[a].value = "timeout" /\ acts[b].value = "timeout")
                   => ActsOf({"waitdom"}) # {}

\* the text associated with a click: the descriptor's text, else its ARIA
\* label, else its title
AssociatedText(ev) ==
    LET el == GetEl(ev)
    IN  Or(Get(el, "text"), Or(Get(el, "ariaLabel"), Or(Get(el, "title"), "")))

\* the transitional words of the specification, in lower case
TransitionalWords == {"continue", "next", "login", "sign in", "signin", "submit"}

NamesTransition(text) == \E w \in TransitionalWords : Contains(Lower(text), w)

\* C20: for a click whose associated text (its text, else its ARIA label, else
\* its title) names a transitional action, credential inference runs again
\* after the settling of that click and within its step, before the next
\* event; for any other click it does not run. Credentials are configured.
C20_TransitionalAutofill ==
    (/\ Handled1
     /\ Get(LastEv, "etype") = "click"
     /\ Truthy(creds.user) /\ Truthy(creds.pass))
    => IF NamesTransition(AssociatedText(LastEv))
       THEN /\ ActsOf({"autofill"}) # {}
            /\ ActsOf({"waiturl"}) # {} /\ ActsOf({"waitidle"}) # {}
            /\ \A k \in ActsOf({"autofill"}) :
                  \A w \in ActsOf({"click", "forceclick", "waiturl", "waitidle", "waitdom"}) :
                     w < k
            /\ idx = begun[Len(begun)] + 1
       ELSE ActsOf({"autofill"}) = {}

\* a click on a button without text whose ARIA label is "Continue" was
\* settled and followed by credential inference
C20_Witness ==
    /\ Handled1
    /\ Get(LastEv, "etype") = "click"
    /\ Get(GetEl(LastEv), "text") = ""
    /\ Get(GetEl(LastEv), "ariaLabel") = "Continue"
    /\ ActsOf({"waitdom"}) # {}
    /\ acts[Len(acts)].op = "autofill"

\* the redacted input of a field the runner takes for neither credential
Unclassified(ev) ==
    /\ Get(ev, "etype") = "input"
    /\ Get(ev, "input_value") = REDACTED
    /\ ~looksLikePasswordField(ElFromEvent(ev))
    /\ ~looksLikeEmailField(ElFromEvent(ev))

\* C21: a redacted input whose descriptor classifies as neither identity nor
\* secret is skipped: nothing is filled, typed or clicked, no credential is
\* entered, the page stays where it was and the loop goes on to the next event.
C21_UnclassifiedSkipped ==
    (Handled1 /\ Unclassified(LastEv)) =>
        /\ acts = <<>>
        /\ pageUrl = prevUrl
        /\ idx = begun[Len(begun)] + 1
        /\ pc \in {"pace", "act", "done"}

\* with both credentials configured, a redacted input on the search field
\* was passed over and replay reached the end of the log
C21_Witness ==
    /\ Handled1
    /\ Unclassified(LastEv)
    /\ Get(GetEl(LastEv), "name") = "q"
    /\ Truthy(creds.user) /\ Truthy(creds.pass)
    /\ acts = <<>>
    /\ pc = "done"

\* C22: a keydown event is replayed as a key press if and only if its key is
\* Enter, Tab, Escape or one of the four arrow keys.
C22_ControlKeysReplayed ==
    (Handled1 /\ Get(LastEv, "etype") = "keydown") =>
        ((acts = <<Act("press", PageLoc, Get(LastEv, "key"))>>)
            <=> Get(LastEv, "key") \in ControlKeys)

\* C23: a click event gets at most two click attempts, a normal click and,
\* only if that raised, exactly one forced click; if the forced click raised
\* too the step ends there, and in every case settling follows and the loop
\* goes on to the next event.
C23_OneForcedRetry ==
    (Handled1 /\ Get(LastEv, "etype") = "click") =>
        LET forced == ActsOf({"forceclick"})
            raised == {k \in ActsOf({"except"}) : acts[k].value = "click"}
        IN  /\ ActsOf({"click"}) = {1}
            /\ acts[1] = Act("click", resolved, "")
            /\ Cardinality(forced) <= 1
            /\ forced # {} <=> raised # {}
            /\ \A k \in forced : k = 3 /\ acts[k] = Act("forceclick", resolved, "") /\ raised = {2}
            /\ \E w \in ActsOf({"waiturl"}) :
                  \A k \in ActsOf({"click", "forceclick", "except"}) : k < w
            /\ idx = begun[Len(begun)] + 1
            /\ pc \in {"pace", "act", "done"}

\* both the click and the forced click raised; settling ran and replay came
\* to the end of the log
C23_Witness ==
    /\ Handled1
    /\ Get(LastEv, "etype") = "click"
    /\ Len(acts) >= 5
    /\ acts[2] = Act("except", resolved, "click")
    /\ acts[3].op = "forceclick"
    /\ acts[4] = Act("except", resolved, "forceclick")
    /\ acts[5].op = "waiturl"
    /\ resolved.elem # "none"
    /\ pc = "done"

Informational == {"change", "submit", "visibility"}

\* the step that handles a change, submit or visibility event
InformationalStep ==
    /\ pc = "act"
    /\ Get(events[idx], "etype") \in Informational
    /\ idx' = idx + 1

\* C24: a change, submit or visibility event is never re-enacted: handling it
\* performs no navigation, click, fill or key press and leaves the page as it
\* was; the event still went through the pacing step before, and the clock
\* of replay advances.
C24_InformationalOnly ==
    /\ []((Handled1 /\ Get(LastEv, "etype") \in Informational) => acts = <<>>)
    /\ [][InformationalStep =>
            /\ acts' = <<>>
            /\ pageUrl' = pageUrl /\ prevUrl' = prevUrl
            /\ snap' = snap /\ resolved' = resolved
            /\ Len(slept) = idx
            /\ slept[idx] = PaceGap(RelTimes(events)[idx], clock - slept[idx])
            /\ clock' > clock]_vars

\* a visibility event whose recorded offset lay ahead was slept for and then
\* passed over
C24_Witness ==
    /\ Handled1
    /\ Get(LastEv, "etype") = "visibility"
    /\ begun[Len(begun)] >= 2
    /\ slept[begun[Len(begun)]] > 0
    /\ acts = <<>>
    /\ clock = beganAt[Len(beganAt)] + IGNORED_DELAY_MS

\* C25: no pacing sleep is longer than MAX_GAP_MS, whatever the recorded idle
\* period before the event and however far replay is ahead of the recorded
\* offsets.
C25_GapCapped ==
    \A i \in 1..Len(slept) : slept[i] >= 0 /\ slept[i] <= MAX_GAP_MS

\* an event recorded ten seconds after the one before it was slept for
\* MAX_GAP_MS, and replay is then still ahead of the recorded offset
C25_Witness ==
    /\ Len(slept) >= 2
    /\ pc = "act"
    /\ idx = Len(slept)
    /\ HasT(idx) /\ HasT(idx - 1)
    /\ Instant(events[idx]["t"]) - Instant(events[idx - 1]["t"]) >= 10000
    /\ slept[idx] = MAX_GAP_MS
    /\ clock < RelTimes(events)[idx]

\* the loop has left its last iteration
LoopEnded == pc = "done" /\ idx = Len(events) + 1

\* C26: every wait of the runner ends, so once the loop has started on a
\* well-formed log it reaches the end of the log, also on a page where no
\* element ever becomes visible, the URL never changes and the network never
\* goes idle.
C26_WaitsBounded ==
    /\ [](Dead /\ Handled1 => /\ pageUrl = prevUrl
                              /\ \A k \in ActsOf({"waiturl", "waitidle"}) :
                                    acts[k].value = "timeout")
    /\ (LoopStarted ~> LoopEnded)

\* on the dead page a click on an element that never showed up ran into the
\* timeouts of resolution, of both clicks and of settling, and replay went
\* on to the end of the log
C26_Witness ==
    /\ Dead
    /\ LoopEnded
    /\ begun = <<1, 2>>
    /\ Get(events[1], "etype") = "click"
    /\ failed = <<TRUE, FALSE>>

----------------------------------------------------------------------------
(* Replay while a stop signal is raised from outside *)

\* StopSignal.trigger(), called while replay is in its loop
TriggerStop ==
    /\ pc \in {"pace", "act"}
    /\ ~stopSignal
    /\ stopSignal' = TRUE
    /\ UNCHANGED <<win, scripts, inflight, accepted, session, domLog, replayVars>>

InitReplayStop ==
    /\ ReplayStart
    /\ [log |-> jsonl, creds |-> creds] \in FailureScenarios
    /\ env = "any"

NextReplayStop ==
    \/ StartReplay
    \/ Pace
    \/ HandleNav
    \/ HandleClick
    \/ HandleInput
    \/ HandleKeydown
    \/ HandleIgnored
    \/ Finish
    \/ TriggerStop

SpecReplayStop == InitReplayStop /\ [][NextReplayStop]_vars

\* the loop stands between two events and the stop signal is raised
StopSeenBetweenEvents == stopSignal /\ pc = "pace"

\* C27: a stop signal raised during replay is observed between events: the
\* loop then ends without acting on the remaining events; only the step in
\* flight when the signal came is finished.
C27_CooperativeCancel ==
    [][StopSeenBetweenEvents => (pc' = "done" /\ idx' = idx /\ begun' = begun)]_vars

\* C30: the recorder and the runner classify a field alike: whatever its id,
\* name, label and declared type, the recorder's autofill takes it for the
\* identity (for the secret) exactly when the runner does.
C30_SameClassification ==
    (Handled1 /\ Get(LastEv, "etype") = "input" /\ HasEl(LastEv)) =>
        LET info == ElFromEvent(LastEv)
        IN  /\ captureLooksLikeEmailField(info) <=> looksLikeEmailField(info)
            /\ captureLooksLikePasswordField(info) <=> looksLikePasswordField(info)

\* the event is a navigation by load or popstate
IsPageLoad(ev) ==
    /\ Get(ev, "etype") = "nav"
    /\ "meta" \in DOMAIN ev
    /\ Get(ev["meta"], "reason") \in {"load", "popstate"}

First(S) == CHOOSE i \in S : \A j \in S : i <= j

\* the initial target as the log gives it: that of the first page load, or
\* without one the url of the earliest event that has a url
InitialTarget(evs) ==
    LET loads == {i \in 1..Len(evs) : IsPageLoad(evs[i])}
        withUrl == {i \in 1..Len(evs) : Truthy(Get(evs[i], "url"))}
    IN  IF loads # {}
        THEN LET ev == evs[First(loads)]
             IN  IF Truthy(Get(ev, "to_url")) THEN Get(ev, "to_url") ELSE Get(ev, "url")
        ELSE IF withUrl # {} THEN Get(evs[First(withUrl)], "url")
        ELSE Null

\* the log is loaded and none of its events has been begun
BeforeFirstEvent == events # <<>> /\ begun = <<>> /\ pc \in {"pace", "act", "aborted"}

Gotos(as) == {i \in 1..Len(as) : as[i].op = "goto"}

\* C31: for a non-empty log the first thing replay does is to go to the
\* target (to_url, else url) of the first nav event by load or popstate,
\* wherever it stands in the log; without such an event it goes to the url of
\* the earliest event that has one; no event is begun before that.
C31_InitialTarget ==
    /\ BeforeFirstEvent =>
          IF Truthy(InitialTarget(events))
          THEN /\ Gotos(acts) = {1}
               /\ acts[1] = Act("goto", PageLoc, InitialTarget(events))
          ELSE Gotos(acts) = {}
    /\ begun # <<>> => pc \notin {"start", "aborted"}

\* a page load written third, after two events of other pages, is the target
C31_Witness ==
    /\ BeforeFirstEvent
    /\ pc = "pace"
    /\ Len(events) = 3
    /\ ~IsPageLoad(events[1]) /\ ~IsPageLoad(events[2]) /\ IsPageLoad(events[3])
    /\ Get(events[1], "url") = PageUrl
    /\ acts # <<>>
    /\ acts[1] = Act("goto", PageLoc, HomeUrl)

====
